---- MODULE Spec2Model ----
(***************************************************************************)
(* Model of the Windows snapshot facade of sysinfo, src/windows/system.rs: *)
(* the System struct, its construction (counter subscription), the         *)
(* category refreshes refresh_cpu / refresh_memory / refresh_process /     *)
(* refresh_processes, the memory and swap getters, and the liveness probe. *)
(*                                                                         *)
(* The collaborators that live in other files of the crate (Query,         *)
(* Processor, Process, get_translation, add_counter, compute_cpu_usage,    *)
(* update_proc_info) are modelled from their description in the design     *)
(* document; the operating system is modelled as an environment.           *)
(***************************************************************************)
EXTENDS Integers, FiniteSets, Sequences, TLC

---------------------------------------------------------------------------
(* Bounds of the model *)

\* each pid is given to at most MaxGen successive processes by the OS
MaxGen == 2
\* number of logical processors found by init_processors
NbCores == 2
\* elapsed time between two samples ranges over 1..MaxDt
MaxDt == 2

(* Program constants *)

\* winapi::um::minwinbase::STILL_ACTIVE
STILL_ACTIVE == 259
\* winapi::shared::minwindef::FALSE
WIN_FALSE == 0
\* the shift of the kibibyte getters
KIB_SHIFT == 10
\* milliseconds per second, the divisor of GetTickCount64()
MS_PER_SEC == 1000

\* the pids the caller refreshes; the registry handles each pid on its own,
\* so two give every interaction: a call on one pid while another is tracked
Pids == {1, 2}
Cores == 1..NbCores
\* raw values a counter may yield: increasing, equal and decreasing pairs,
\* with deltas below, at and above one elapsed unit
RawSamples == {0, 1, 2}
\* busy ticks and metadata (memory) the OS may report for a process
ProcTicks == {0, 1}
ProcMetas == {0, 1}
\* byte counts GlobalMemoryStatusEx may report (around the 1 KiB boundaries)
MemBytes == {0, 1, 1024, 2047}
\* exit codes a terminated process may have left (259 is a legal exit code)
ExitCodes == {0, STILL_ACTIVE}
\* what GetExitCodeProcess may return (FALSE on failure) and what it may
\* leave in exit_code (around 0 and around STILL_ACTIVE)
ProbeRets == {WIN_FALSE, 1}
ProbeCodes == {0, 1, STILL_ACTIVE - 1, STILL_ACTIVE, STILL_ACTIVE + 1}
\* the longest uptime the tick clock reaches, in half seconds
MaxHalfSeconds == 5
\* wall-clock readings in milliseconds since the Unix epoch; a negative
\* reading is a clock set before the epoch
WallReadings == {0 - 500, 1500, 2500}
\* tick-clock readings at construction, in milliseconds
TickReadings == {500, 1500}
\* the clocks at construction; the wall clock, when it is not before the
\* epoch, is not behind the uptime, so that the u64 subtraction of
\* boot_time() does not underflow
ClockReadings ==
    {c \in [wall : WallReadings, tick : TickReadings] :
        c.wall >= 0 => c.wall \div MS_PER_SEC >= c.tick \div MS_PER_SEC}

---------------------------------------------------------------------------
(* Option<T> *)

None == [some |-> FALSE]
Some(x) == [some |-> TRUE, val |-> x]

Clamp(x, lo, hi) == IF x < lo THEN lo ELSE IF x > hi THEN hi ELSE x

\* x >> n on an unsigned integer
ShiftRight(x, n) == x \div (2 ^ n)

---------------------------------------------------------------------------
(* HashMap<usize, Process>: a set of (pid, proc) entries *)

contains_key(m, k) == \E e \in m : e.pid = k

get(m, k) == (CHOOSE e \in m : e.pid = k).proc

insert(m, k, v) == {e \in m : e.pid # k} \cup {[pid |-> k, proc |-> v]}

remove(m, k) == {e \in m : e.pid # k}

keys(m) == {e.pid : e \in m}

---------------------------------------------------------------------------
VARIABLES
    \* fields of System
    process_list, mem_total, mem_free, swap_total, swap_free,
    global_processor, processors, query, boot_time,
    \* TRUE once an expect() of refresh_cpu has panicked
    panicked,
    \* the operating system: for each pid the number of processes that have
    \* had it, whether the latest one is running, and its exit code if not
    os,
    \* the outcome of the translation lookups the platform table gives
    translation,
    \* the clocks, in milliseconds: wall is the wall clock relative to the
    \* Unix epoch (negative before it), tick the time since the system started
    clock,
    \* the last operation: its name, argument, return value and what it
    \* observed (liveness probe, process lookup, memory status)
    last,
    \* the pids that have been evicted from the registry at least once
    evicted

sysVars == <<process_list, mem_total, mem_free, swap_total, swap_free,
             global_processor, processors, query, boot_time, panicked>>
memVars == <<mem_total, mem_free>>
swapVars == <<swap_total, swap_free>>
cpuVars == <<global_processor, processors, query>>
envVars == <<os, translation, clock>>
vars == <<process_list, mem_total, mem_free, swap_total, swap_free,
          global_processor, processors, query, boot_time, panicked, os,
          translation, clock, last, evicted>>

---------------------------------------------------------------------------
(* Counter Query Session (windows::tools / windows::processor) *)

\* Query::new(): the session with no counter, or None when unavailable
Query_new(available) ==
    IF available THEN Some([counters |-> {}, data |-> [k \in {} |-> 0]]) ELSE None

\* Query::add_counter: registers the key when the path resolves
Query_add_counter(q, key, resolves) ==
    IF resolves /\ key \notin q.counters
    THEN [counters |-> q.counters \cup {key},
          data |-> [k \in q.counters \cup {key} |->
                       IF k \in q.counters THEN q.data[k] ELSE 0]]
    ELSE q

\* Query::refresh(): one fresh raw value for every added counter
Query_refresh(q, fresh) ==
    [q EXCEPT !.data = [k \in q.counters |-> fresh[k]]]

\* Query::get(key): the value of the key, None for a key never added
Query_get(q, key) ==
    IF key \in q.counters THEN Some(q.data[key]) ELSE None

\* add_counter(path, query, keys, counter_name): subscribes the counter and,
\* when it was registered, stores its key in the processor
add_counter(q, proc, counter_name, resolves) ==
    LET q2 == Query_add_counter(q, counter_name, resolves)
    IN  [query |-> q2,
         proc |-> IF counter_name \in q2.counters
                  THEN [proc EXCEPT !.key_used = Some(counter_name)]
                  ELSE proc]

---------------------------------------------------------------------------
(* Processor (windows::processor) *)

\* Processor::new_with_values: usage 0, no counter key, no previous sample
Processor_new_with_values(name) ==
    [name |-> name, cpu_usage |-> 0, key_used |-> None, old_sample |-> None]

\* init_processors(): one Processor per logical processor
init_processors ==
    [i \in Cores |-> Processor_new_with_values(ToString(i - 1))]

get_key_used(p) == p.key_used

\* Variant of set_cpu_usage that does not clamp the computed percentage.
set_cpu_usage_unclamped(p, used_time, elapsed) ==
    [p EXCEPT
       !.cpu_usage = IF p.old_sample.some
                     THEN ((used_time - p.old_sample.val) * 100) \div elapsed
                     ELSE 0,
       !.old_sample = Some(used_time)]

\* Processor::set_cpu_usage: the usage is the busy-tick delta since the
\* previous sample over the elapsed time, clamped to [0, 100]; 0 for the
\* first sample
set_cpu_usage(p, used_time, elapsed) ==
    [p EXCEPT
       !.cpu_usage = IF p.old_sample.some
                     THEN Clamp(((used_time - p.old_sample.val) * 100) \div elapsed,
                                0, 100)
                     ELSE 0,
       !.old_sample = Some(used_time)]

\* the counter keys of new_with_specifics: "tot_0" and format!("{}_0", pos)
GlobalKey == "tot_0"
CoreKey(i) == ToString(i - 1) \o "_0"
AllKeys == {GlobalKey} \cup {CoreKey(i) : i \in Cores}

---------------------------------------------------------------------------
(* Process (windows::process) *)

\* Process::new_from_pid: a fresh entry holding a handle to the process the
\* OS currently runs under pid, or None when the lookup finds none
Process_new_from_pid(pid, found, handle, meta) ==
    IF found
    THEN Some([handle |-> handle, memory |-> meta, cpu_usage |-> 0,
               old_cpu |-> None])
    ELSE None

get_handle(entry) == entry.handle

\* update_proc_info: refreshes the metadata of the entry
update_proc_info(entry, meta) == [entry EXCEPT !.memory = meta]

\* compute_cpu_usage(p, nb_processors, system_time): delta of the process's
\* busy ticks over the elapsed system time and the number of processors,
\* clamped to [0, 100]; 0 for the first sample.  system_time is given as
\* the time elapsed since the entry's previous computation.
compute_cpu_usage(p, nb_processors, system_time, busy) ==
    [p EXCEPT
       !.cpu_usage = IF p.old_cpu.some
                     THEN Clamp(((busy - p.old_cpu.val) * 100)
                                   \div (system_time * nb_processors), 0, 100)
                     ELSE 0,
       !.old_cpu = Some(busy)]

---------------------------------------------------------------------------
(* Liveness probe *)

\* what GetExitCodeProcess may answer for the handle of a tracked pid: the
\* query fails (exit_code keeps its initial 0), or it succeeds with
\* STILL_ACTIVE for a running process and the exit code otherwise
GetExitCodeProcess(o) ==
    {[ret |-> WIN_FALSE, exit_code |-> 0],
     [ret |-> 1, exit_code |-> IF o.running THEN STILL_ACTIVE ELSE o.code]}

\* Variant of is_proc_running that reports terminated only when the query
\* failed and the code is not STILL_ACTIVE.
is_proc_running_either(ret, exit_code) ==
    ~(ret = WIN_FALSE /\ exit_code # STILL_ACTIVE)

is_proc_running(ret, exit_code) ==
    ~(ret = WIN_FALSE \/ exit_code # STILL_ACTIVE)

---------------------------------------------------------------------------
(* Construction: System::new_with_specifics up to the initial refresh *)

\* get_translation(name, x): the localized name, None on a translation miss
get_translation(name, x) == IF x[name] THEN Some(name) ELSE None

RECURSIVE add_processor_counters(_, _, _, _, _)
\* the loop over s.processors.iter_mut().enumerate(), from index i
add_processor_counters(q, procs, proc_time_trans, resolves, i) ==
    IF i > Len(procs) THEN [query |-> q, processors |-> procs]
    ELSE IF proc_time_trans.some
         THEN LET r == add_counter(q, procs[i], CoreKey(i), CoreKey(i) \in resolves)
              IN  add_processor_counters(r.query, [procs EXCEPT ![i] = r.proc],
                                         proc_time_trans, resolves, i + 1)
         ELSE add_processor_counters(q, procs, proc_time_trans, resolves, i + 1)

\* Variant of new_with_specifics that falls back to the English category
\* name when the translation of "Processor" is missing.
new_with_specifics_untranslated(available, x, resolves) ==
    LET s == [process_list |-> {},
              mem_total |-> 0, mem_free |-> 0,
              swap_total |-> 0, swap_free |-> 0,
              global_processor |-> Processor_new_with_values("Total CPU"),
              processors |-> init_processors,
              query |-> Query_new(available)]
    IN  IF s.query.some
        THEN LET proc_time_trans == get_translation("% Processor Time", x)
                 g == IF proc_time_trans.some
                      THEN add_counter(s.query.val, s.global_processor,
                                       GlobalKey, GlobalKey \in resolves)
                      ELSE [query |-> s.query.val, proc |-> s.global_processor]
                 l == add_processor_counters(g.query, s.processors,
                                             proc_time_trans, resolves, 1)
             IN  [s EXCEPT !.global_processor = g.proc,
                           !.processors = l.processors,
                           !.query = Some(l.query)]
        ELSE s

\* available: whether Query::new() opens a session; x: the translation
\* table; resolves: the counter keys whose path the session can resolve
new_with_specifics(available, x, resolves) ==
    LET s == [process_list |-> {},
              mem_total |-> 0, mem_free |-> 0,
              swap_total |-> 0, swap_free |-> 0,
              global_processor |-> Processor_new_with_values("Total CPU"),
              processors |-> init_processors,
              query |-> Query_new(available)]
    IN  IF s.query.some
        THEN LET processor_trans == get_translation("Processor", x)
             IN  IF processor_trans.some
                 THEN LET proc_time_trans == get_translation("% Processor Time", x)
                          g == IF proc_time_trans.some
                               THEN add_counter(s.query.val, s.global_processor,
                                                GlobalKey, GlobalKey \in resolves)
                               ELSE [query |-> s.query.val, proc |-> s.global_processor]
                          l == add_processor_counters(g.query, s.processors,
                                                      proc_time_trans, resolves, 1)
                      IN  [s EXCEPT !.global_processor = g.proc,
                                    !.processors = l.processors,
                                    !.query = Some(l.query)]
                 ELSE s
        ELSE s

NoCall == [op |-> "new", pid |-> 0, ret |-> FALSE, probe |-> "none",
           lookup |-> "none", total |-> 0, avail |-> 0,
           exit |-> [ret |-> WIN_FALSE, exit_code |-> 0]]

\* GetTickCount64(): milliseconds since the system started
GetTickCount64 == clock.tick

\* boot_time(): now is SystemTime::now() in milliseconds relative to the
\* epoch, ticks is GetTickCount64(); duration_since fails for a time before
\* the epoch
boot_time_fn(now, ticks) ==
    IF now >= 0
    THEN (now \div MS_PER_SEC) - (ticks \div MS_PER_SEC)
    ELSE 0

\* the state after System::new_with_specifics, built when the clocks read
\* one of Clocks
Construction(Clocks) ==
    \E available \in BOOLEAN,
       x \in [{"Processor", "% Processor Time"} -> BOOLEAN],
       resolves \in SUBSET AllKeys :
        LET s == new_with_specifics(available, x, resolves)
        IN  /\ process_list = s.process_list
            /\ mem_total = s.mem_total
            /\ mem_free = s.mem_free
            /\ swap_total = s.swap_total
            /\ swap_free = s.swap_free
            /\ global_processor = s.global_processor
            /\ processors = s.processors
            /\ query = s.query
            /\ panicked = FALSE
            /\ os = [p \in Pids |-> [gen |-> 0, running |-> FALSE, code |-> 0]]
            /\ translation = x
            /\ clock \in Clocks
            /\ boot_time = boot_time_fn(clock.wall, GetTickCount64)
            /\ last = NoCall
            /\ evicted = {}

Init == Construction({[wall |-> 2500, tick |-> 500]})

---------------------------------------------------------------------------
(* The operating system *)

\* the OS starts a process under pid; a pid is not given to a new process
\* while the registry still holds a handle to the previous one
OsSpawn(pid) ==
    /\ ~os[pid].running
    /\ os[pid].gen < MaxGen
    /\ ~contains_key(process_list, pid)
    /\ os' = [os EXCEPT ![pid] = [gen |-> @.gen + 1, running |-> TRUE, code |-> 0]]
    /\ last' = [NoCall EXCEPT !.op = "os_spawn", !.pid = pid]
    /\ UNCHANGED <<sysVars, translation, clock, evicted>>

\* the process running under pid exits with some exit code
OsExit(pid) ==
    /\ os[pid].running
    /\ \E c \in ExitCodes :
          os' = [os EXCEPT ![pid] = [@ EXCEPT !.running = FALSE, !.code = c]]
    /\ last' = [NoCall EXCEPT !.op = "os_exit", !.pid = pid]
    /\ UNCHANGED <<sysVars, translation, clock, evicted>>

\* half a second passes on both clocks
ClockAdvance ==
    /\ clock.tick + 500 <= MaxHalfSeconds * 500
    /\ clock' = [wall |-> clock.wall + 500, tick |-> clock.tick + 500]
    /\ last' = [NoCall EXCEPT !.op = "clock_advance"]
    /\ UNCHANGED <<sysVars, os, translation, evicted>>

\* the wall clock is set to the reading now
ClockSet(now) ==
    /\ clock.wall # now
    /\ clock' = [clock EXCEPT !.wall = now]
    /\ last' = [NoCall EXCEPT !.op = "clock_set"]
    /\ UNCHANGED <<sysVars, os, translation, evicted>>

\* a liveness probe whose exit-code query returns one of Rets and leaves
\* one of Codes in exit_code
is_proc_running_call(Rets, Codes) ==
    /\ ~panicked
    /\ \E ret \in Rets, exit_code \in Codes :
          last' = [NoCall EXCEPT !.op = "is_proc_running",
                                 !.ret = is_proc_running(ret, exit_code),
                                 !.exit = [ret |-> ret, exit_code |-> exit_code]]
    /\ UNCHANGED <<sysVars, envVars, evicted>>

---------------------------------------------------------------------------
(* refresh_cpu *)

RECURSIVE refresh_processors_expecting_key(_, _, _, _)
\* Variant of the loop of refresh_cpu that expects every processor to have a
\* counter key.
refresh_processors_expecting_key(q, procs, elapsed, i) ==
    IF i > Len(procs) THEN [processors |-> procs, panicked |-> FALSE]
    ELSE LET key_used == get_key_used(procs[i])
             got == IF key_used.some THEN Query_get(q, key_used.val) ELSE None
         IN  IF ~got.some
             THEN [processors |-> procs, panicked |-> TRUE]
             ELSE refresh_processors_expecting_key(
                      q, [procs EXCEPT ![i] = set_cpu_usage(procs[i], got.val, elapsed)],
                      elapsed, i + 1)

RECURSIVE refresh_processors_global_key(_, _, _, _)
\* Variant of the loop of refresh_cpu that reads the aggregate counter for
\* every processor that has a key.
refresh_processors_global_key(q, procs, elapsed, i) ==
    IF i > Len(procs) THEN [processors |-> procs, panicked |-> FALSE]
    ELSE LET key_used == get_key_used(procs[i])
             got == IF key_used.some /\ GlobalKey \in q.counters
                    THEN Query_get(q, GlobalKey)
                    ELSE IF key_used.some THEN Query_get(q, key_used.val) ELSE None
         IN  IF key_used.some /\ ~got.some
             THEN [processors |-> procs, panicked |-> TRUE]
             ELSE refresh_processors_global_key(
                      q,
                      IF got.some
                      THEN [procs EXCEPT ![i] = set_cpu_usage(procs[i], got.val, elapsed)]
                      ELSE procs,
                      elapsed, i + 1)

RECURSIVE refresh_processors(_, _, _, _)
\* the loop over self.processors.iter_mut() from index i; a panicking
\* expect() ends it
refresh_processors(q, procs, elapsed, i) ==
    IF i > Len(procs) THEN [processors |-> procs, panicked |-> FALSE]
    ELSE LET key_used == get_key_used(procs[i])
             got == IF key_used.some THEN Query_get(q, key_used.val) ELSE None
         IN  IF key_used.some /\ ~got.some
             THEN [processors |-> procs, panicked |-> TRUE]
             ELSE refresh_processors(
                      q,
                      IF got.some
                      THEN [procs EXCEPT ![i] = set_cpu_usage(procs[i], got.val, elapsed)]
                      ELSE procs,
                      elapsed, i + 1)

\* Variant of refresh_cpu that reads the counters before refreshing the
\* session.
refresh_cpu_with_reading_first(fresh, elapsed) ==
    IF query.some
    THEN LET q == query.val
             key_used == get_key_used(global_processor)
             got == IF key_used.some THEN Query_get(q, key_used.val) ELSE None
         IN  /\ query' = Some(Query_refresh(q, fresh))
             /\ IF key_used.some /\ ~got.some
                THEN /\ panicked' = TRUE
                     /\ UNCHANGED <<global_processor, processors>>
                ELSE LET l == refresh_processors(q, processors, elapsed, 1)
                     IN  /\ global_processor' =
                               IF got.some
                               THEN set_cpu_usage(global_processor, got.val, elapsed)
                               ELSE global_processor
                         /\ processors' = l.processors
                         /\ panicked' = l.panicked
    ELSE UNCHANGED <<query, global_processor, processors, panicked>>

\* Variant of refresh_cpu that unwraps the session instead of testing it.
refresh_cpu_with_unwrapping(fresh, elapsed) ==
    IF query.some
    THEN LET q == Query_refresh(query.val, fresh)
             key_used == get_key_used(global_processor)
             got == IF key_used.some THEN Query_get(q, key_used.val) ELSE None
         IN  /\ query' = Some(q)
             /\ IF key_used.some /\ ~got.some
                THEN /\ panicked' = TRUE
                     /\ UNCHANGED <<global_processor, processors>>
                ELSE LET l == refresh_processors(q, processors, elapsed, 1)
                     IN  /\ global_processor' =
                               IF got.some
                               THEN set_cpu_usage(global_processor, got.val, elapsed)
                               ELSE global_processor
                         /\ processors' = l.processors
                         /\ panicked' = l.panicked
    ELSE /\ panicked' = TRUE
         /\ UNCHANGED <<query, global_processor, processors>>

\* fresh: the raw values the session pulls; elapsed: time since last sample
refresh_cpu_with(fresh, elapsed) ==
    IF query.some
    THEN LET q == Query_refresh(query.val, fresh)
             key_used == get_key_used(global_processor)
             got == IF key_used.some THEN Query_get(q, key_used.val) ELSE None
         IN  /\ query' = Some(q)
             /\ IF key_used.some /\ ~got.some
                THEN /\ panicked' = TRUE
                     /\ UNCHANGED <<global_processor, processors>>
                ELSE LET l == refresh_processors(q, processors, elapsed, 1)
                     IN  /\ global_processor' =
                               IF got.some
                               THEN set_cpu_usage(global_processor, got.val, elapsed)
                               ELSE global_processor
                         /\ processors' = l.processors
                         /\ panicked' = l.panicked
    ELSE UNCHANGED <<query, global_processor, processors, panicked>>

\* Raw, Times: the raw values and elapsed times the environment may give
refresh_cpu(Raw, Times) ==
    /\ ~panicked
    /\ \E elapsed \in Times :
       \E fresh \in [(IF query.some THEN query.val.counters ELSE {}) -> Raw] :
          refresh_cpu_with(fresh, elapsed)
    /\ last' = [NoCall EXCEPT !.op = "refresh_cpu"]
    /\ UNCHANGED <<process_list, memVars, swapVars, boot_time, envVars, evicted>>

---------------------------------------------------------------------------
(* refresh_memory and the memory getters *)

\* ullTotalPhys, ullAvailPhys: what GlobalMemoryStatusEx reports
refresh_memory_with(ullTotalPhys, ullAvailPhys) ==
    /\ mem_total' = ullTotalPhys
    /\ mem_free' = ullAvailPhys

\* Variant of refresh_memory that also stores the page-file figures of the
\* memory status in the swap fields.
refresh_memory_storing_swap(Bytes) ==
    /\ ~panicked
    /\ \E ullTotalPhys \in Bytes, ullAvailPhys \in Bytes :
          /\ ullAvailPhys <= ullTotalPhys
          /\ refresh_memory_with(ullTotalPhys, ullAvailPhys)
          /\ swap_total' = ullTotalPhys
          /\ swap_free' = ullAvailPhys
          /\ last' = [NoCall EXCEPT !.op = "refresh_memory",
                                    !.total = ullTotalPhys, !.avail = ullAvailPhys]
    /\ UNCHANGED <<process_list, cpuVars, panicked, boot_time, envVars, evicted>>

\* Variant of refresh_memory that also starts the processors' usage afresh.
refresh_memory_resetting_cpu(Bytes) ==
    /\ ~panicked
    /\ \E ullTotalPhys \in Bytes, ullAvailPhys \in Bytes :
          /\ ullAvailPhys <= ullTotalPhys
          /\ refresh_memory_with(ullTotalPhys, ullAvailPhys)
          /\ last' = [NoCall EXCEPT !.op = "refresh_memory",
                                    !.total = ullTotalPhys, !.avail = ullAvailPhys]
    /\ global_processor' = [global_processor EXCEPT !.cpu_usage = 0]
    /\ processors' = [i \in DOMAIN processors |->
                         [processors[i] EXCEPT !.cpu_usage = 0]]
    /\ UNCHANGED <<process_list, swapVars, query, panicked, boot_time, envVars, evicted>>

\* Bytes: the byte counts the environment may report
refresh_memory(Bytes) ==
    /\ ~panicked
    /\ \E ullTotalPhys \in Bytes, ullAvailPhys \in Bytes :
          /\ ullAvailPhys <= ullTotalPhys
          /\ refresh_memory_with(ullTotalPhys, ullAvailPhys)
          /\ last' = [NoCall EXCEPT !.op = "refresh_memory",
                                    !.total = ullTotalPhys, !.avail = ullAvailPhys]
    /\ UNCHANGED <<process_list, swapVars, cpuVars, panicked, boot_time, envVars, evicted>>

get_total_memory == ShiftRight(mem_total, KIB_SHIFT)

get_free_memory == ShiftRight(mem_free, KIB_SHIFT)

\* Variant of get_used_memory that subtracts the two kibibyte values.
get_used_memory_of_kib == get_total_memory - get_free_memory

get_used_memory == ShiftRight(mem_total - mem_free, KIB_SHIFT)

get_total_swap == ShiftRight(swap_total, KIB_SHIFT)

get_free_swap == ShiftRight(swap_free, KIB_SHIFT)

get_used_swap == ShiftRight(swap_total - swap_free, KIB_SHIFT)

---------------------------------------------------------------------------
(* The process registry *)

get_processes == process_list

get_process(pid) ==
    IF contains_key(process_list, pid) THEN Some(get(process_list, pid)) ELSE None

\* Variant of refresh_existing_process that adds the updated entry next to
\* the one it updates instead of updating it in place.
refresh_existing_process_appending(pl, nb, pid, compute_cpu, exit, meta, busy, system_time) ==
    IF contains_key(pl, pid)
    THEN LET entry == get(pl, pid)
         IN  IF ~is_proc_running(exit.ret, exit.exit_code)
             THEN [ret |-> FALSE, process_list |-> pl]
             ELSE LET e1 == update_proc_info(entry, meta)
                      e2 == IF compute_cpu
                            THEN compute_cpu_usage(e1, nb, system_time, busy)
                            ELSE e1
                  IN  [ret |-> TRUE,
                       process_list |-> pl \cup {[pid |-> pid, proc |-> e2]}]
    ELSE [ret |-> FALSE, process_list |-> pl]

\* refresh_existing_process(s, pid, compute_cpu) on the registry pl with nb
\* processors; exit: the answer of GetExitCodeProcess; meta, busy,
\* system_time: what the OS reports for the process.  Gives the return
\* value and the registry.
refresh_existing_process(pl, nb, pid, compute_cpu, exit, meta, busy, system_time) ==
    IF contains_key(pl, pid)
    THEN LET entry == get(pl, pid)
         IN  IF ~is_proc_running(exit.ret, exit.exit_code)
             THEN [ret |-> FALSE, process_list |-> pl]
             ELSE LET e1 == update_proc_info(entry, meta)
                      e2 == IF compute_cpu
                            THEN compute_cpu_usage(e1, nb, system_time, busy)
                            ELSE e1
                  IN  [ret |-> TRUE, process_list |-> insert(pl, pid, e2)]
    ELSE [ret |-> FALSE, process_list |-> pl]

\* Variant of refresh_process that leaves the entry of a terminated process
\* in the registry.
refresh_process_keeping_dead(pl, nb, pid, exit, found, handle, meta, busy, system_time) ==
    IF contains_key(pl, pid)
    THEN LET r == refresh_existing_process(pl, nb, pid, TRUE, exit, meta, busy,
                                           system_time)
         IN  [ret |-> r.ret, process_list |-> r.process_list]
    ELSE LET p == Process_new_from_pid(pid, found, handle, meta)
         IN  IF p.some
             THEN [ret |-> TRUE,
                   process_list |->
                       insert(pl, pid,
                              compute_cpu_usage(p.val, nb, system_time, busy))]
             ELSE [ret |-> FALSE, process_list |-> pl]

\* Variant of refresh_process that inserts an empty entry when the lookup of
\* an untracked pid finds no process.
refresh_process_inserting_missing(pl, nb, pid, exit, found, handle, meta, busy, system_time) ==
    IF contains_key(pl, pid)
    THEN LET r == refresh_existing_process(pl, nb, pid, TRUE, exit, meta, busy,
                                           system_time)
         IN  IF r.ret = FALSE
             THEN [ret |-> FALSE, process_list |-> remove(r.process_list, pid)]
             ELSE [ret |-> TRUE, process_list |-> r.process_list]
    ELSE LET p == Process_new_from_pid(pid, found, handle, meta)
         IN  IF p.some
             THEN [ret |-> TRUE,
                   process_list |->
                       insert(pl, pid,
                              compute_cpu_usage(p.val, nb, system_time, busy))]
             ELSE [ret |-> FALSE,
                   process_list |->
                       insert(pl, pid, [handle |-> 0, memory |-> 0,
                                        cpu_usage |-> 0, old_cpu |-> None])]

\* Variant of refresh_process that reports a found process without
\* inserting it.
refresh_process_not_inserting(pl, nb, pid, exit, found, handle, meta, busy, system_time) ==
    IF contains_key(pl, pid)
    THEN LET r == refresh_existing_process(pl, nb, pid, TRUE, exit, meta, busy,
                                           system_time)
         IN  IF r.ret = FALSE
             THEN [ret |-> FALSE, process_list |-> remove(r.process_list, pid)]
             ELSE [ret |-> TRUE, process_list |-> r.process_list]
    ELSE LET p == Process_new_from_pid(pid, found, handle, meta)
         IN  IF p.some
             THEN [ret |-> TRUE, process_list |-> pl]
             ELSE [ret |-> FALSE, process_list |-> pl]

\* Variant of refresh_process that clears the registry when the tracked
\* process has terminated.
refresh_process_clearing(pl, nb, pid, exit, found, handle, meta, busy, system_time) ==
    IF contains_key(pl, pid)
    THEN LET r == refresh_existing_process(pl, nb, pid, TRUE, exit, meta, busy,
                                           system_time)
         IN  IF r.ret = FALSE
             THEN [ret |-> FALSE, process_list |-> {}]
             ELSE [ret |-> TRUE, process_list |-> r.process_list]
    ELSE LET p == Process_new_from_pid(pid, found, handle, meta)
         IN  IF p.some
             THEN [ret |-> TRUE,
                   process_list |->
                       insert(pl, pid,
                              compute_cpu_usage(p.val, nb, system_time, busy))]
             ELSE [ret |-> FALSE, process_list |-> pl]

\* Variant of refresh_process that takes zero busy ticks as the baseline of
\* a new entry and computes its usage against it.
refresh_process_zero_baseline(pl, nb, pid, exit, found, handle, meta, busy, system_time) ==
    IF contains_key(pl, pid)
    THEN LET r == refresh_existing_process(pl, nb, pid, TRUE, exit, meta, busy,
                                           system_time)
         IN  IF r.ret = FALSE
             THEN [ret |-> FALSE, process_list |-> remove(r.process_list, pid)]
             ELSE [ret |-> TRUE, process_list |-> r.process_list]
    ELSE LET p == Process_new_from_pid(pid, found, handle, meta)
         IN  IF p.some
             THEN [ret |-> TRUE,
                   process_list |->
                       insert(pl, pid,
                              compute_cpu_usage(
                                  compute_cpu_usage(p.val, nb, system_time, 0),
                                  nb, system_time, busy))]
             ELSE [ret |-> FALSE, process_list |-> pl]

\* System::refresh_process(pid) on the registry pl; found, handle: the
\* outcome of the OS lookup of Process::new_from_pid
refresh_process_on(pl, nb, pid, exit, found, handle, meta, busy, system_time) ==
    IF contains_key(pl, pid)
    THEN LET r == refresh_existing_process(pl, nb, pid, TRUE, exit, meta, busy,
                                           system_time)
         IN  IF r.ret = FALSE
             THEN [ret |-> FALSE, process_list |-> remove(r.process_list, pid)]
             ELSE [ret |-> TRUE, process_list |-> r.process_list]
    ELSE LET p == Process_new_from_pid(pid, found, handle, meta)
         IN  IF p.some
             THEN [ret |-> TRUE,
                   process_list |->
                       insert(pl, pid,
                              compute_cpu_usage(p.val, nb, system_time, busy))]
             ELSE [ret |-> FALSE, process_list |-> pl]

\* Metas, Ticks, Times: the metadata, busy ticks and elapsed times the
\* environment may report for the process
refresh_process(pid, Metas, Ticks, Times) ==
    /\ ~panicked
    /\ \E exit \in GetExitCodeProcess(os[pid]),
          found \in {FALSE, os[pid].running},
          meta \in Metas, busy \in Ticks, system_time \in Times :
          LET tracked == contains_key(process_list, pid)
              r == refresh_process_on(process_list, Len(processors), pid, exit,
                                      found, os[pid].gen, meta, busy, system_time)
          IN  /\ process_list' = r.process_list
              /\ last' = [NoCall EXCEPT
                            !.op = "refresh_process", !.pid = pid, !.ret = r.ret,
                            !.probe = IF ~tracked THEN "none"
                                      ELSE IF is_proc_running(exit.ret, exit.exit_code)
                                           THEN "running" ELSE "terminated",
                            !.lookup = IF tracked THEN "none"
                                       ELSE IF found THEN "found" ELSE "missing"]
              /\ evicted' = IF tracked /\ ~r.ret THEN evicted \cup {pid} ELSE evicted
    /\ UNCHANGED <<memVars, swapVars, cpuVars, panicked, boot_time, envVars>>

\* Variant of refresh_processes that drops the entries of processes that
\* are no longer running.
refresh_processes_evicting ==
    /\ ~panicked
    /\ process_list' = {e \in process_list : os[e.pid].running}
    /\ last' = [NoCall EXCEPT !.op = "refresh_processes"]
    /\ UNCHANGED <<memVars, swapVars, cpuVars, panicked, boot_time, envVars, evicted>>

\* System::refresh_processes: an empty body
refresh_processes ==
    /\ ~panicked
    /\ last' = [NoCall EXCEPT !.op = "refresh_processes"]
    /\ UNCHANGED <<sysVars, envVars, evicted>>

---------------------------------------------------------------------------
(* uptime and boot time *)

get_uptime == GetTickCount64 \div MS_PER_SEC

\* Variant of get_boot_time that computes the boot time on each read.
get_boot_time_computing == boot_time_fn(clock.wall, GetTickCount64)

get_boot_time == boot_time

---------------------------------------------------------------------------
(* Specifications *)

\* the process registry and the operating system's processes, from a
\* construction in which every counter was subscribed
InitProc ==
    /\ Init
    /\ query.some
    /\ query.val.counters = AllKeys

NextProc ==
    \/ \E pid \in Pids : OsSpawn(pid)
    \/ \E pid \in Pids : OsExit(pid)
    \/ \E pid \in Pids : refresh_process(pid, ProcMetas, ProcTicks, 1..MaxDt)
    \/ refresh_processes

SpecProc == InitProc /\ [][NextProc]_vars

\* the processors and the counter session
NextCpu == refresh_cpu(RawSamples, 1..MaxDt)

SpecCpu == Init /\ [][NextCpu]_vars

\* the memory totals
NextMem == refresh_memory(MemBytes)

SpecMem == Init /\ [][NextMem]_vars

\* the whole facade, on a small environment: one pid, two raw values, two
\* byte counts
\* the liveness probe alone, on every outcome of the exit-code query
NextProbe == is_proc_running_call(ProbeRets, ProbeCodes)

SpecProbe == Init /\ [][NextProbe]_vars

\* the clocks and the refresh operations, from a construction at any of the
\* clock readings in which every counter was subscribed
InitTime ==
    /\ Construction(ClockReadings)
    /\ query.some
    /\ query.val.counters = AllKeys

NextTime ==
    \/ ClockAdvance
    \/ \E now \in WallReadings : ClockSet(now)
    \/ refresh_cpu({1}, {1})
    \/ refresh_memory({2047})
    \/ refresh_process(1, {0}, {0}, {1})
    \/ refresh_processes

SpecTime == InitTime /\ [][NextTime]_vars

Next ==
    \/ OsSpawn(1)
    \/ OsExit(1)
    \/ refresh_cpu({0, 1}, {1})
    \/ refresh_memory({0, 2047})
    \/ refresh_process(1, {0}, {0, 1}, {1})
    \/ refresh_processes

Spec == Init /\ [][Next]_vars

---------------------------------------------------------------------------
(* Properties of the process registry (SpecProc) *)

\* every answer GetExitCodeProcess can give for pid makes the probe report
\* terminated
ProbeTerminated(pid) ==
    \A x \in GetExitCodeProcess(os[pid]) : ~is_proc_running(x.ret, x.exit_code)

\* C1: when refresh_process(pid) is called for a tracked pid and the
\* liveness probe of its handle reports terminated, the call returns false
\* and pid is absent from get_processes / get_process right after the call.
C1_TerminatedEvicted ==
    (last.op = "refresh_process" /\ last.probe = "terminated")
        => /\ last.ret = FALSE
           /\ last.pid \notin keys(get_processes)
           /\ get_process(last.pid) = None

C1_Witness ==
    /\ last.op = "refresh_process"
    /\ last.probe = "terminated"
    /\ last.pid \in evicted
    /\ ~os[last.pid].running

\* C2: refresh_process(pid) for an untracked pid whose OS lookup finds no
\* process returns false and leaves the registry exactly as it was.
C2_MissingLeavesRegistry ==
    [][(last'.op = "refresh_process" /\ last'.lookup = "missing")
          => /\ ~contains_key(process_list, last'.pid)
             /\ last'.ret = FALSE
             /\ process_list' = process_list]_vars

C2_Witness ==
    /\ last.op = "refresh_process"
    /\ last.lookup = "missing"
    /\ process_list # {}

\* C3: right after refresh_processes, every tracked pid whose liveness probe
\* reports terminated is absent from the registry.
C3_BulkRefreshEvicts ==
    last.op = "refresh_processes"
        => \A pid \in keys(process_list) : ~ProbeTerminated(pid)

\* C5: refresh_process(pid) returns true exactly when pid is in the registry
\* right after the call: updated in place (probe running) or newly added
\* (lookup found); false when not found or just evicted.
C5_ReturnIffTracked ==
    last.op = "refresh_process"
        => /\ last.ret <=> contains_key(process_list, last.pid)
           /\ last.ret <=> (last.probe = "running" \/ last.lookup = "found")

C5_Witness ==
    /\ last.op = "refresh_process"
    /\ last.ret
    /\ last.probe = "running"
    /\ \E pid \in Pids : pid # last.pid /\ pid \in evicted

\* C6: the registry holds at most one entry per pid, and a pid that enters
\* the registry does so through the untracked path of refresh_process, as a
\* new entry for the process the OS now runs under that pid, with a fresh
\* CPU baseline; an entry that stays keeps its handle.
C6_OneFreshEntryPerPid ==
    [][/\ \A e1 \in process_list', e2 \in process_list' :
              e1.pid = e2.pid => e1 = e2
       /\ \A pid \in Pids :
              contains_key(process_list', pid) =>
                  \/ /\ contains_key(process_list, pid)
                     /\ get_handle(get(process_list', pid))
                            = get_handle(get(process_list, pid))
                  \/ /\ ~contains_key(process_list, pid)
                     /\ last'.op = "refresh_process"
                     /\ last'.pid = pid
                     /\ last'.lookup = "found"
                     /\ os[pid].running
                     /\ get(process_list', pid)
                            = [handle |-> os[pid].gen,
                               memory |-> get(process_list', pid).memory,
                               cpu_usage |-> 0,
                               old_cpu |-> get(process_list', pid).old_cpu]
                     /\ get(process_list', pid).old_cpu.some]_vars

\* a pid evicted earlier is tracked again, for a later process
C6_Witness ==
    \E pid \in Pids :
        /\ pid \in evicted
        /\ contains_key(process_list, pid)
        /\ get_handle(get(process_list, pid)) > 1
        /\ last.op = "refresh_process"
        /\ last.pid = pid
        /\ last.lookup = "found"

---------------------------------------------------------------------------
(* Properties of the memory totals (SpecMem) *)

\* C4 as stated: after refresh_memory, for byte counts with
\* mem_free <= mem_total, get_total_memory - get_free_memory equals
\* get_used_memory.
C4_Original ==
    (last.op = "refresh_memory" /\ mem_free <= mem_total)
        => get_total_memory - get_free_memory = get_used_memory

\* C4: after refresh_memory, for byte counts with mem_free <= mem_total,
\* get_total_memory - get_free_memory equals get_used_memory when
\* mem_total mod 1024 >= mem_free mod 1024, and exceeds it by exactly 1
\* otherwise (each getter right-shifts by 10).
C4_UsedWithinOneKib ==
    (last.op = "refresh_memory" /\ mem_free <= mem_total)
        => get_total_memory - get_free_memory - get_used_memory
              = IF mem_total % (2 ^ KIB_SHIFT) >= mem_free % (2 ^ KIB_SHIFT)
                THEN 0 ELSE 1

C4_Witness ==
    /\ last.op = "refresh_memory"
    /\ mem_free <= mem_total
    /\ mem_total % (2 ^ KIB_SHIFT) < mem_free % (2 ^ KIB_SHIFT)
    /\ get_used_memory = 0
    /\ get_total_memory = 1

---------------------------------------------------------------------------
(* Properties of the whole facade (Spec) and of the processors (SpecCpu) *)

AllProcessors == {global_processor} \cup {processors[i] : i \in DOMAIN processors}

\* C7: refresh_memory changes only the memory totals; refresh_cpu changes
\* only the processors and the counter session; refresh_process and
\* refresh_processes leave the memory totals and the processors unchanged.
C7_RefreshesIndependent ==
    [][/\ last'.op = "refresh_memory"
            => UNCHANGED <<global_processor, processors, query, process_list,
                           swapVars>>
       /\ last'.op = "refresh_cpu"
            => UNCHANGED <<memVars, swapVars, process_list>>
       /\ last'.op \in {"refresh_process", "refresh_processes"}
            => UNCHANGED <<memVars, swapVars, global_processor, processors,
                           query>>]_vars

C7_Witness ==
    /\ last.op = "refresh_memory"
    /\ mem_total > 0
    /\ process_list # {}
    /\ global_processor.cpu_usage > 0
    /\ \E i \in DOMAIN processors : processors[i].cpu_usage > 0

\* C8: when the counter session could not be opened (query is None),
\* construction completes, no refresh_cpu changes the usage of any
\* processor (it stays 0 and nothing panics), and refresh_memory and
\* refresh_process do what they do with a session: the totals are the ones
\* reported, and refresh_process returns true exactly for a pid it keeps or
\* adds.
C8_NoSessionDegrades ==
    query = None
        => /\ ~panicked
           /\ \A p \in AllProcessors :
                 p.cpu_usage = 0 /\ p.key_used = None /\ p.old_sample = None
           /\ last.op = "refresh_memory"
                 => mem_total = last.total /\ mem_free = last.avail
           /\ last.op = "refresh_process"
                 => /\ last.ret <=> contains_key(process_list, last.pid)
                    /\ last.ret <=> (last.probe = "running" \/ last.lookup = "found")

C8_Witness ==
    /\ query = None
    /\ last.op = "refresh_cpu"
    /\ mem_total > 0
    /\ process_list # {}

\* C9: when the translation of "Processor" or of "% Processor Time" is
\* missing, construction completes, no processor gets a counter key, the
\* usage of every processor stays 0 over any number of refresh_cpu calls,
\* and refresh_memory and refresh_process proceed as usual.
C9_TranslationMiss ==
    (~translation["Processor"] \/ ~translation["% Processor Time"])
        => /\ ~panicked
           /\ query.some => query.val.counters = {}
           /\ \A p \in AllProcessors : p.key_used = None /\ p.cpu_usage = 0
           /\ last.op = "refresh_memory"
                 => mem_total = last.total /\ mem_free = last.avail
           /\ last.op = "refresh_process"
                 => /\ last.ret <=> contains_key(process_list, last.pid)
                    /\ last.ret <=> (last.probe = "running" \/ last.lookup = "found")

C9_Witness ==
    /\ ~translation["Processor"]
    /\ translation["% Processor Time"]
    /\ query.some
    /\ last.op = "refresh_cpu"
    /\ mem_total > 0
    /\ process_list # {}

\* C10: in every state, the usage of the aggregate processor and of every
\* per-core processor lies in [0, 100], whatever raw values the session
\* returns.
C10_UsageInRange ==
    \A p \in AllProcessors : 0 <= p.cpu_usage /\ p.cpu_usage <= 100

\* a decreasing and a steeply increasing raw value, both clamped
C10_Witness ==
    /\ last.op = "refresh_cpu"
    /\ global_processor.cpu_usage = 100
    /\ global_processor.old_sample = Some(2)
    /\ \E i \in DOMAIN processors :
          /\ processors[i].cpu_usage = 0
          /\ processors[i].old_sample = Some(0)

---------------------------------------------------------------------------
(* First samples, completion and counter keys *)

\* C11: the first CPU usage computation yields 0: a process newly inserted
\* by refresh_process has cpu usage 0 right after the call, and a processor
\* has usage 0 as long as it has taken no sample and right after its first.
C11_FirstUsageZero ==
    [][/\ \A i \in DOMAIN processors :
              ~processors[i].old_sample.some
                  => processors[i].cpu_usage = 0 /\ processors'[i].cpu_usage = 0
       /\ ~global_processor.old_sample.some
              => global_processor.cpu_usage = 0 /\ global_processor'.cpu_usage = 0
       /\ (last'.op = "refresh_process" /\ last'.lookup = "found")
              => get(process_list', last'.pid).cpu_usage = 0]_vars

\* a new entry whose first busy-tick sample is not zero
C11_Witness ==
    /\ last.op = "refresh_process"
    /\ last.lookup = "found"
    /\ get(process_list, last.pid).cpu_usage = 0
    /\ get(process_list, last.pid).old_cpu = Some(1)
    /\ global_processor.old_sample = Some(1)
    /\ global_processor.cpu_usage = 0

C14_OnlyRegisteredKeys ==
    /\ ~panicked
    /\ \A p \in AllProcessors :
          get_key_used(p).some
              => /\ query.some
                 /\ get_key_used(p).val \in query.val.counters
                 /\ last.op = "refresh_cpu"
                       => p.old_sample = Query_get(query.val, get_key_used(p).val)

C14_Witness ==
    /\ last.op = "refresh_cpu"
    /\ get_key_used(global_processor).some
    /\ global_processor.old_sample = Some(2)
    /\ \E i \in DOMAIN processors : ~get_key_used(processors[i]).some
    /\ \E i \in DOMAIN processors : processors[i].old_sample = Some(1)

\* what refresh_cpu makes of processor p under key: updated from the value
\* of its own key in the refreshed session, for some elapsed time
UpdatedFromOwnKey(p, pnew, key) ==
    /\ get_key_used(p) = Some(key)
    /\ \E elapsed \in 1..MaxDt :
          pnew = set_cpu_usage(p, query'.val.data[key], elapsed)

\* C16: the aggregate processor and the per-core processors are independent
\* series: the only key of the aggregate is "tot_0", of core pos "<pos>_0",
\* all distinct; refresh_cpu updates each processor from the value of its
\* own key, and leaves a processor without key unchanged.
C16_IndependentSeries ==
    [][/\ Cardinality(AllKeys) = 1 + Len(processors)
       /\ last'.op = "refresh_cpu"
            => /\ IF get_key_used(global_processor).some
                  THEN UpdatedFromOwnKey(global_processor, global_processor', "tot_0")
                  ELSE global_processor' = global_processor
               /\ \A i \in DOMAIN processors :
                     IF get_key_used(processors[i]).some
                     THEN UpdatedFromOwnKey(processors[i], processors'[i],
                                            ToString(i - 1) \o "_0")
                     ELSE processors'[i] = processors[i]]_vars

\* the aggregate and a core updated to different values, another core
\* without key untouched
C16_Witness ==
    /\ last.op = "refresh_cpu"
    /\ global_processor.cpu_usage = 100
    /\ \E i \in DOMAIN processors, j \in DOMAIN processors :
          /\ get_key_used(processors[i]).some
          /\ processors[i].cpu_usage = 50
          /\ processors[i].old_sample # global_processor.old_sample
          /\ ~get_key_used(processors[j]).some
          /\ processors[j].cpu_usage = 0

---------------------------------------------------------------------------
(* Registry membership, frame of refresh_process, swap *)

\* C17: a pid is in the registry iff refresh_process(pid) has been called
\* and its most recent call returned true: the registry is empty after
\* construction (before the first call), membership of a pid changes only
\* in a refresh_process of that pid, and after such a call the pid is a
\* member iff it returned true; every other step leaves the registry as it
\* was.
C17_MemberIffLastCallTrue ==
    [][/\ last.op = "new" => process_list = {}
       /\ \A pid \in Pids :
             contains_key(process_list', pid) # contains_key(process_list, pid)
                 => last'.op = "refresh_process" /\ last'.pid = pid
       /\ last'.op = "refresh_process"
             => (last'.ret <=> contains_key(process_list', last'.pid))
       /\ last'.op # "refresh_process" => process_list' = process_list]_vars

\* a tracked pid whose process has exited stays in the registry through
\* refresh_processes
C17_Witness ==
    /\ last.op = "refresh_processes"
    /\ \E pid \in Pids :
          /\ contains_key(process_list, pid)
          /\ ~os[pid].running
          /\ pid \in evicted

\* C18: refresh_process(pid) leaves the entry of every other pid as it was,
\* present or absent, with the same contents.
C18_OtherEntriesUntouched ==
    [][last'.op = "refresh_process"
          => \A q \in Pids \ {last'.pid} :
                {e \in process_list' : e.pid = q} = {e \in process_list : e.pid = q}]_vars

\* the tracked process was found terminated and evicted while another pid,
\* whose process has exited too, keeps its entry
C18_Witness ==
    /\ last.op = "refresh_process"
    /\ last.probe = "terminated"
    /\ ~contains_key(process_list, last.pid)
    /\ \E q \in Pids \ {last.pid} :
          /\ contains_key(process_list, q)
          /\ ~os[q].running
          /\ get(process_list, q).cpu_usage > 0

\* C19: the swap totals are never assigned: get_total_swap, get_free_swap
\* and get_used_swap return 0 in every reachable state.
C19_SwapAlwaysZero ==
    /\ swap_total = 0
    /\ swap_free = 0
    /\ get_total_swap = 0
    /\ get_free_swap = 0
    /\ get_used_swap = 0

C19_Witness ==
    /\ last.op = "refresh_memory"
    /\ get_total_memory > 0
    /\ get_used_memory > 0
    /\ get_total_swap = 0
    /\ get_used_swap = 0

---------------------------------------------------------------------------
(* The liveness probe; boot time and uptime *)

\* C15: is_proc_running reports 'still running' iff the exit-code query
\* succeeded and the exit code is STILL_ACTIVE; on a failed query with any
\* code, and on a successful query with another code, it reports terminated.
C15_RunningIffSuccessAndStillActive ==
    last.op = "is_proc_running"
        => (last.ret <=> (last.exit.ret # 0 /\ last.exit.exit_code = 259))

\* a failed query that left STILL_ACTIVE in exit_code reports terminated
C15_Witness ==
    /\ last.op = "is_proc_running"
    /\ last.exit.ret = 0
    /\ last.exit.exit_code = 259
    /\ ~last.ret

====
